---- MODULE Spec2Model ----
(***************************************************************************)
(* The TMC429 register-access driver (src/tmc/ic/TMC429/TMC429.c) as a     *)
(* state machine: the 4-byte SPI telegram exchange, the typed write and    *)
(* read accessors, the read-modify-write mode setters, SetAMax, HardStop   *)
(* and Init429, run by callers against a device that stores what is        *)
(* written to its registers.                                               *)
(***************************************************************************)
EXTENDS Integers, Sequences, FiniteSets, TLC

VARIABLES
    dev,      \* the device's registers: register address -> 3 payload bytes
    pc,       \* per caller: "off", "idle", "done" or the position inside a call
    call,     \* per caller: the current (or last returned) call and its arguments
    prev,     \* per caller: the call that returned before the current one
    Read,     \* per caller: the response buffer Read[4] of the call's read
    ret,      \* per caller: <<>> (nothing returned) or <<value>>
    tx,       \* per caller: the telegrams the current call has sent, in order
    before,   \* the device's registers when the call that began last began
    Bytes,    \* per caller: the 3-byte array a read hands back to its caller
    intr,     \* per caller: another caller wrote the register this call has read
    budget,   \* calls that may still begin
    Write,    \* byte level: the 4-byte buffer ReadWrite429 sends
    RdBuf,    \* byte level: the 4-byte buffer ReadWrite429 fills
    spi,      \* byte level: the ReadWriteSPI calls made so far, <<byte, last>>
    miso,     \* byte level: the bytes ReadWriteSPI returned so far
    stub      \* byte level: which transport is injected

vars == <<dev, pc, call, prev, Read, ret, tx, before, Bytes, intr, budget,
          Write, RdBuf, spi, miso, stub>>
callVars == <<dev, pc, call, prev, Read, ret, tx, before, Bytes, intr, budget>>
spiVars == <<Write, RdBuf, spi, miso, stub>>

----------------------------------------------------------------------------
(* C integer arithmetic. An int32_t is an integer in -2^31 .. 2^31-1, a    *)
(* uint8_t an integer in 0..255; the bitwise operators work on the two's   *)
(* complement digits.                                                      *)

Byte == 0..255

\* (uint8_t) x
U8(x) == x % 256

\* x >> n on an int32_t (sign-propagating) and x << n on a small value
Shr(x, n) == x \div (2 ^ n)
Shl(x, n) == x * (2 ^ n)

RECURSIVE BitAnd(_, _)
BitAnd(a, b) ==
    IF a = 0 \/ b = 0 THEN 0
    ELSE IF a = -1 THEN b
    ELSE IF b = -1 THEN a
    ELSE 2 * BitAnd(a \div 2, b \div 2) + (IF a % 2 = 1 /\ b % 2 = 1 THEN 1 ELSE 0)

RECURSIVE BitOr(_, _)
BitOr(a, b) ==
    IF a = 0 THEN b
    ELSE IF b = 0 THEN a
    ELSE IF a = -1 \/ b = -1 THEN -1
    ELSE 2 * BitOr(a \div 2, b \div 2) + (IF a % 2 = 1 \/ b % 2 = 1 THEN 1 ELSE 0)

\* a - b on int32_t operands with a near INT32_MIN, wrapped to 32 bits
\* (computed without leaving 32 bits on the way)
INT32_MIN == -2147483647 - 1
INT32_MAX == 2147483647
Sub32(a, b) ==
    IF b >= 0 /\ a < INT32_MIN + b
    THEN ((a + INT32_MAX) + 1) + ((INT32_MAX - b) + 1)
    ELSE a - b

----------------------------------------------------------------------------
(* Register map of TMC429.h, which the driver includes.                    *)

TMC429_READ == 1
TMC429_MOTOR(motor) == Shl(motor, 5)
TMC429_IDX_VMIN(motor) == BitOr(4, TMC429_MOTOR(motor))
TMC429_IDX_VMAX(motor) == BitOr(6, TMC429_MOTOR(motor))
TMC429_IDX_VTARGET(motor) == BitOr(8, TMC429_MOTOR(motor))
TMC429_IDX_VACTUAL(motor) == BitOr(10, TMC429_MOTOR(motor))
TMC429_IDX_AMAX(motor) == BitOr(12, TMC429_MOTOR(motor))
TMC429_IDX_PMUL_PDIV(motor) == BitOr(18, TMC429_MOTOR(motor))
TMC429_IDX_REFCONF_RM(motor) == BitOr(20, TMC429_MOTOR(motor))
TMC429_IDX_PULSEDIV_RAMPDIV(motor) == BitOr(24, TMC429_MOTOR(motor))
TMC429_IDX_XLATCHED == 28
TMC429_IDX_IF_CONFIG_429 == 104
TMC429_IDX_SMGP == 126
TMC429_IFCONF_SDO_INT == 2
TMC429_IFCONF_EN_SD == 32
TMC429_IFCONF_EN_REFR == 256
TMC429_RM_VELOCITY == 2
TMC429_NO_REF == 3

Motors == 0..2

----------------------------------------------------------------------------
(* The device behind the injected transport: a telegram whose address byte *)
(* carries the read flag leaves every register alone and is answered with  *)
(* the status byte and the register's three bytes; any other telegram      *)
(* stores its three payload bytes in the addressed register.               *)

RegAddrs == {2 * k : k \in 0..63}

\* What every register holds before anything is stored in it. dev keeps only
\* the registers stored into since; Reg gives the content of any register.
PowerUp(a) == <<U8(a + 1), U8(255 - a), U8(3 * a + 7)>>
Reg(d, a) == IF a \in DOMAIN d THEN d[a] ELSE PowerUp(a)
SameRegs(d1, d2, addrs) == \A a \in addrs : Reg(d1, a) = Reg(d2, a)

IsReadTelegram(tel) == BitAnd(tel[1], TMC429_READ) # 0
RegOf(tel) == tel[1] - BitAnd(tel[1], TMC429_READ)

DevStore(d, tel) ==
    IF ~IsReadTelegram(tel) /\ RegOf(tel) \in RegAddrs
    THEN (RegOf(tel) :> <<tel[2], tel[3], tel[4]>>) @@ d
    ELSE d

DevAnswer(d, tel, status) ==
    IF IsReadTelegram(tel) /\ RegOf(tel) \in RegAddrs
    THEN <<status>> \o Reg(d, RegOf(tel))
    ELSE <<status, 0, 0, 0>>

\* ReadWrite429 seen from above the transport: one telegram out, one in.
ReadWrite429(d, W, status) ==
    [dev |-> DevStore(d, W), Read |-> DevAnswer(d, W, status)]

\* What a status byte can be, and what an uninitialised byte of a local
\* buffer can hold when it is sent.
StatusBytes == {0, 165}
Garbage == {<<0, 0, 0>>, <<255, 90, 165>>}
\* How the telegram log writes a byte that was sent uninitialised.
Indet == 0 - 1

----------------------------------------------------------------------------
(* The telegrams the accessors build, and what the read accessors make of  *)
(* the answer.                                                             *)

Write429BytesWrite(Address, B) == <<Address, B[1], B[2], B[3]>>

Write429DatagramWrite(Address, HighByte, MidByte, LowByte) ==
    <<Address, HighByte, MidByte, LowByte>>

Write429ZeroWrite(Address) == <<Address, 0, 0, 0>>

\* (variant: low byte first)
Write429ShortWriteLSB(Address, Value) ==
    <<Address, 0, BitAnd(Value, 255), U8(Shr(Value, 8))>>

Write429ShortWrite(Address, Value) ==
    <<Address, 0, U8(Shr(Value, 8)), BitAnd(Value, 255)>>

Write429IntWrite(Address, Value) ==
    <<Address, U8(Shr(Value, 16)), U8(Shr(Value, 8)), BitAnd(Value, 255)>>

\* Write429U16 of TMC429.h: the 16-bit write
Write429U16Write(Address, Value) == Write429ShortWrite(Address, Value)
Write429U24Write(Address, Value) == Write429IntWrite(Address, Value)

\* Write[0] of every read; Write[1..3] are sent as the stack left them
\* (variant: the read flag left out)
ReadAddressPlain(Address) == Address

ReadAddress(Address) == BitOr(Address, TMC429_READ)
ReadWrite0(Address, g) == <<ReadAddress(Address), g[1], g[2], g[3]>>
ReadLog(Address) == <<ReadAddress(Address), Indet, Indet, Indet>>

\* the outcomes of the one exchange of a read: the device after it, the answer
ReadOutcomes(d, Address) ==
    {ReadWrite429(d, ReadWrite0(Address, g), st) : g \in Garbage, st \in StatusBytes}

Read429BytesBytes(R) == <<R[2], R[3], R[4]>>
Read429BytesReturn(R) == R[1]

\* what a byte of the caller's stack beyond Read[3] can hold
BeyondRead == {0, 90, 255}

\* return Read[Index+1]
Read429SingleByteReturns(R, Index) ==
    IF Index + 1 <= 3 THEN {R[Index + 2]} ELSE BeyondRead

Read429Int12Result(R) ==
    LET Result == BitOr(Shl(R[3], 8), R[4])
    IN  IF BitAnd(Result, 2048) # 0 THEN BitOr(Result, -4096) ELSE Result

\* (variant: the sign bit of a 16-bit field)
Read429Int24ResultBit15(R) ==
    LET Result == BitOr(BitOr(Shl(R[2], 16), Shl(R[3], 8)), R[4])
    IN  IF BitAnd(Result, 32768) # 0 THEN BitOr(Result, -16777216) ELSE Result

Read429Int24Result(R) ==
    LET Result == BitOr(BitOr(Shl(R[2], 16), Shl(R[3], 8)), R[4])
    IN  IF BitAnd(Result, 8388608) # 0 THEN BitOr(Result, -16777216) ELSE Result

\* the register both mode setters read and write back
Set429RampModeAddress(Axis) == TMC429_IDX_REFCONF_RM(Axis)
\* (variant: the answer indexed from the status byte)
Set429RampModeWriteBackShifted(Axis, RampMode, R) ==
    <<Set429RampModeAddress(Axis), R[1], R[2], RampMode>>

Set429RampModeWriteBack(Axis, RampMode, R) ==
    <<Set429RampModeAddress(Axis), R[2], R[3], RampMode>>

Set429SwitchModeAddress(Axis) == TMC429_IDX_REFCONF_RM(Axis)
\* (variant: the ramp-mode setter's byte positions)
Set429SwitchModeWriteBackLow(Axis, SwitchMode, R) ==
    <<Set429SwitchModeAddress(Axis), R[2], R[3], SwitchMode>>

Set429SwitchModeWriteBack(Axis, SwitchMode, R) ==
    <<Set429SwitchModeAddress(Axis), R[2], SwitchMode, R[4]>>

----------------------------------------------------------------------------
(* SetAMax's arithmetic. A float or double value is written [m, e] for     *)
(* m * 2^e with m an integer.                                              *)
(*                                                                         *)
(* p is AMax (at most 11 bits) times a power of two, so it is exact.       *)
(* p_reduced = p*0.988 is computed in double and rounded to float. 0.988   *)
(* is the double nearest 247/250, less than 2^-53 away from it, so the     *)
(* double product is less than 2^-42 (relative to AMax < 2^11) away from   *)
(* AMax*247/250, while AMax*247/250 is either a float itself or at least   *)
(* 1/(125*2^26) away from every point where float rounding changes: the    *)
(* float stored is the float nearest AMax*247/250, times p's power of two. *)
(* p_reduced * 8.0 * (1<<pdiv) is a power-of-two multiple of a float, so   *)
(* it is exact in double, and the cast truncates it.                       *)

\* (variant: saturating instead of masking)
SetAMaxClamp(AMax) == IF AMax > 2047 THEN 2047 ELSE AMax

SetAMaxMask(AMax) == BitAnd(AMax, 2047)

\* (variant: the low nibble taken for both dividers)
pulse_divLow(PulseRampDiv) == BitAnd(PulseRampDiv, 15)

pulse_div(PulseRampDiv) == Shr(PulseRampDiv, 4)
ramp_div(PulseRampDiv) == BitAnd(PulseRampDiv, 15)

SetAMaxP(AMax, PulseRampDiv) ==
    LET rd == ramp_div(PulseRampDiv)
        pd == pulse_div(PulseRampDiv)
    IN  IF rd >= pd
        THEN [m |-> AMax, e |-> 0 - (7 + (rd - pd))]
        ELSE [m |-> AMax, e |-> (pd - rd) - 7]

\* X * 2^k with 125*2^23 <= X * 2^k < 125*2^24, and k
RECURSIVE FloatScale(_, _)
FloatLow == 125 * (2 ^ 23)
FloatScale(X, k) ==
    IF X < FloatLow THEN FloatScale(2 * X, k + 1) ELSE [X |-> X, k |-> k]

\* (float)(p * 0.988)
SetAMaxPReduced(p) ==
    IF p.m = 0 THEN [m |-> 0, e |-> 0]
    ELSE LET sc == FloatScale(p.m * 247, 0)
             q == sc.X \div 125
             r == sc.X % 125
         IN  [m |-> IF 2 * r > 125 THEN q + 1 ELSE q, e |-> p.e - sc.k - 1]

\* What (int32_t) x yields for a double x of 2^31 or more: the conversion is
\* undefined, and the instruction or library routine behind it gives one of these.
CastOverflow == {INT32_MIN, INT32_MAX}

\* p_reduced * 8.0 * (1<<pdiv) is below 2^31, so that the cast is defined
SetAMaxCastDefined(pr, pdiv) ==
    LET t == pr.e + 3 + pdiv
    IN  ~(t >= 7 /\ pr.m > 0 /\ (t >= 31 \/ pr.m >= 2 ^ (31 - t)))

\* (int32_t)(p_reduced * 8.0 * (1<<pdiv))
SetAMaxCast(pr, pdiv, ov) ==
    LET t == pr.e + 3 + pdiv
    IN  IF ~SetAMaxCastDefined(pr, pdiv) THEN ov
        ELSE IF t < 0 THEN (IF 0 - t >= 25 THEN 0 ELSE pr.m \div (2 ^ (0 - t)))
        ELSE pr.m * (2 ^ t)

\* (variant: the offset of 128 left out)
SetAMaxPMulNoOffset(pr, pdiv, ov) == SetAMaxCast(pr, pdiv, ov)

SetAMaxPMul(pr, pdiv, ov) == Sub32(SetAMaxCast(pr, pdiv, ov), 128)

\* (variant: the window twice as wide)
SetAMaxInRangeWide(pmul) == (0 <= pmul) /\ (pmul <= 255)

\* the test of the loop body
SetAMaxInRange(pmul) == (0 <= pmul) /\ (pmul <= 127)

\* the for loop: pdiv = 0 .. 13, (pm, pd) overwritten by every pdiv in range
RECURSIVE SetAMaxLoop(_, _, _, _, _)
SetAMaxLoop(pr, pdiv, pm, pd, ov) ==
    IF ~(pdiv <= 13) THEN [pm |-> pm, pd |-> pd]
    ELSE LET pmul == SetAMaxPMul(pr, pdiv, ov)
         IN  IF SetAMaxInRange(pmul)
             THEN SetAMaxLoop(pr, pdiv + 1, pmul + 128, pdiv, ov)
             ELSE SetAMaxLoop(pr, pdiv + 1, pm, pd, ov)

\* pm and pd as the loop leaves them, from -1 and -1
SetAMaxSearch(pr, ov) == SetAMaxLoop(pr, 0, 0 - 1, 0 - 1, ov)

\* (pm, pd) for each outcome the casts can have; the largest product is the
\* one of pdiv = 13
SetAMaxSearches(AMax, PulseRampDiv) ==
    LET pr == SetAMaxPReduced(SetAMaxP(AMax, PulseRampDiv))
    IN  {SetAMaxSearch(pr, ov) :
            ov \in IF SetAMaxCastDefined(pr, 13) THEN {INT32_MIN} ELSE CastOverflow}

\* (variant: the sentinel replaced by zero)
SetAMaxDataZeroed(pmpd) ==
    <<0, IF pmpd.pm < 0 THEN 0 ELSE U8(pmpd.pm), IF pmpd.pd < 0 THEN 0 ELSE U8(pmpd.pd)>>

\* Data[0..2] as written to PMUL_PDIV
SetAMaxData(pmpd) == <<0, U8(pmpd.pm), U8(pmpd.pd)>>

----------------------------------------------------------------------------
(* Callers and their calls. A single-telegram accessor is one step; a mode *)
(* setter is two, one per telegram, so that other callers' telegrams can   *)
(* fall between them.                                                      *)

NumCallers == 2
Callers == 1..NumCallers

NoBytes == <<0, 0, 0>>
NoRead == <<0, 0, 0, 0>>
TheCall(fn, a, v, b) == [fn |-> fn, a |-> a, v |-> v, b |-> b]
NoCall == TheCall("none", 0, 0, NoBytes)

CanCall(p) == pc[p] \in {"idle", "done"} /\ budget > 0

\* caller q is between the two telegrams of a mode setter
MidSetter(q) == pc[q] \in {"rm_write", "sm_write", "hs_write"}

\* a telegram of tels stores into the register the mode setter of q has read
Hits(q, tels) ==
    /\ MidSetter(q)
    /\ \E i \in 1..Len(tels) :
          /\ ~IsReadTelegram(tels[i])
          /\ RegOf(tels[i]) = TMC429_IDX_REFCONF_RM(call[q].a)

\* a call of one step: begins, sends the telegrams logged as logs, leaves the
\* device as d, returns r and hands back by; R is what its response buffer
\* held when it returned
Shot(p, c, logs, d, r, by, R) ==
    /\ pc' = [pc EXCEPT ![p] = "done"]
    /\ call' = [call EXCEPT ![p] = c]
    /\ prev' = [prev EXCEPT ![p] = call[p]]
    /\ tx' = [tx EXCEPT ![p] = logs]
    /\ dev' = d
    /\ ret' = [ret EXCEPT ![p] = r]
    /\ before' = dev
    /\ Bytes' = [Bytes EXCEPT ![p] = by]
    /\ intr' = [q \in Callers |-> IF q = p THEN FALSE ELSE intr[q] \/ Hits(q, logs)]
    /\ budget' = budget - 1
    /\ Read' = [Read EXCEPT ![p] = R]
    /\ UNCHANGED <<Write, RdBuf, spi, miso, stub>>

OneShot(p, c, logs, d, r, by) == Shot(p, c, logs, d, r, by, NoRead)

\* the first telegram of a mode setter: the read of the register
SetterRead(p, c, Address, next) ==
    \E X \in ReadOutcomes(dev, Address) :
       /\ pc' = [pc EXCEPT ![p] = next]
       /\ call' = [call EXCEPT ![p] = c]
       /\ prev' = [prev EXCEPT ![p] = call[p]]
       /\ tx' = [tx EXCEPT ![p] = <<ReadLog(Address)>>]
       /\ dev' = X.dev
       /\ Read' = [Read EXCEPT ![p] = X.Read]
       /\ ret' = [ret EXCEPT ![p] = <<>>]
       /\ before' = dev
       /\ Bytes' = [Bytes EXCEPT ![p] = NoBytes]
       /\ intr' = [q \in Callers |->
                     IF q = p THEN FALSE ELSE intr[q] \/ Hits(q, <<ReadLog(Address)>>)]
       /\ budget' = budget - 1
       /\ UNCHANGED <<Write, RdBuf, spi, miso, stub>>

\* the second telegram of a mode setter: the write-back, then the return
SetterWriteBack(p, W) ==
    /\ pc' = [pc EXCEPT ![p] = "done"]
    /\ tx' = [tx EXCEPT ![p] = Append(@, W)]
    /\ dev' = ReadWrite429(dev, W, 0).dev
    /\ Read' = [Read EXCEPT ![p] = NoRead]
    /\ intr' = [q \in Callers |-> IF q = p THEN intr[q] ELSE intr[q] \/ Hits(q, <<W>>)]
    /\ UNCHANGED <<call, prev, ret, before, Bytes, budget, Write, RdBuf, spi, miso, stub>>

Write429Bytes(p, Address, B) ==
    /\ CanCall(p)
    /\ LET W == Write429BytesWrite(Address, B)
       IN  OneShot(p, TheCall("Write429Bytes", Address, 0, B), <<W>>,
                   ReadWrite429(dev, W, 0).dev, <<>>, NoBytes)

Write429Datagram(p, Address, HighByte, MidByte, LowByte) ==
    /\ CanCall(p)
    /\ LET W == Write429DatagramWrite(Address, HighByte, MidByte, LowByte)
       IN  OneShot(p, TheCall("Write429Datagram", Address, 0,
                              <<HighByte, MidByte, LowByte>>), <<W>>,
                   ReadWrite429(dev, W, 0).dev, <<>>, NoBytes)

Write429Zero(p, Address) ==
    /\ CanCall(p)
    /\ LET W == Write429ZeroWrite(Address)
       IN  OneShot(p, TheCall("Write429Zero", Address, 0, NoBytes), <<W>>,
                   ReadWrite429(dev, W, 0).dev, <<>>, NoBytes)

Write429Short(p, Address, Value) ==
    /\ CanCall(p)
    /\ LET W == Write429ShortWrite(Address, Value)
       IN  OneShot(p, TheCall("Write429Short", Address, Value, NoBytes), <<W>>,
                   ReadWrite429(dev, W, 0).dev, <<>>, NoBytes)

Write429Int(p, Address, Value) ==
    /\ CanCall(p)
    /\ LET W == Write429IntWrite(Address, Value)
       IN  OneShot(p, TheCall("Write429Int", Address, Value, NoBytes), <<W>>,
                   ReadWrite429(dev, W, 0).dev, <<>>, NoBytes)

Read429Bytes(p, Address) ==
    /\ CanCall(p)
    /\ \E X \in ReadOutcomes(dev, Address) :
          Shot(p, TheCall("Read429Bytes", Address, 0, NoBytes),
               <<ReadLog(Address)>>, X.dev,
               <<Read429BytesReturn(X.Read)>>, Read429BytesBytes(X.Read), X.Read)

\* Read[Index+1]: an element of Read[4] for Index+1 <= 3; beyond it, whatever
\* the memory after the buffer holds
Read429SingleByte(p, Address, Index) ==
    /\ CanCall(p)
    /\ \E X \in ReadOutcomes(dev, Address) :
       \E r \in Read429SingleByteReturns(X.Read, Index) :
          Shot(p, TheCall("Read429SingleByte", Address, Index, NoBytes),
               <<ReadLog(Address)>>, X.dev, <<r>>, NoBytes, X.Read)

Read429Int12(p, Address) ==
    /\ CanCall(p)
    /\ \E X \in ReadOutcomes(dev, Address) :
          OneShot(p, TheCall("Read429Int12", Address, 0, NoBytes),
                  <<ReadLog(Address)>>, X.dev,
                  <<Read429Int12Result(X.Read)>>, NoBytes)

Read429Int24(p, Address) ==
    /\ CanCall(p)
    /\ \E X \in ReadOutcomes(dev, Address) :
          OneShot(p, TheCall("Read429Int24", Address, 0, NoBytes),
                  <<ReadLog(Address)>>, X.dev,
                  <<Read429Int24Result(X.Read)>>, NoBytes)

Set429RampModeRead(p, Axis, RampMode) ==
    /\ CanCall(p)
    /\ SetterRead(p, TheCall("Set429RampMode", Axis, RampMode, NoBytes),
                  Set429RampModeAddress(Axis), "rm_write")

Set429RampModeWrite(p) ==
    /\ pc[p] = "rm_write"
    /\ SetterWriteBack(p, Set429RampModeWriteBack(call[p].a, call[p].v, Read[p]))

Set429SwitchModeRead(p, Axis, SwitchMode) ==
    /\ CanCall(p)
    /\ SetterRead(p, TheCall("Set429SwitchMode", Axis, SwitchMode, NoBytes),
                  Set429SwitchModeAddress(Axis), "sm_write")

Set429SwitchModeWrite(p) ==
    /\ pc[p] = "sm_write"
    /\ SetterWriteBack(p, Set429SwitchModeWriteBack(call[p].a, call[p].v, Read[p]))

\* a later telegram of a call of several steps: a write, then on to next
Step(p, W, next) ==
    /\ pc' = [pc EXCEPT ![p] = next]
    /\ tx' = [tx EXCEPT ![p] = Append(@, W)]
    /\ dev' = ReadWrite429(dev, W, 0).dev
    /\ intr' = [q \in Callers |-> IF q = p THEN intr[q] ELSE intr[q] \/ Hits(q, <<W>>)]
    /\ UNCHANGED <<call, prev, Read, ret, before, Bytes, budget, Write, RdBuf, spi, miso, stub>>

\* (variant: the ramp mode written back as it was read)
HardStopWriteBackKeep(Motor, R) == Set429RampModeWriteBack(Motor, R[4], R)

\* Set429RampMode(Motor, TMC429_RM_VELOCITY): its write-back
HardStopWriteBack(Motor, R) == Set429RampModeWriteBack(Motor, TMC429_RM_VELOCITY, R)

\* (variant: V_ACTUAL zeroed before V_TARGET)
HardStopZeroesSwapped(Motor) ==
    <<Write429ZeroWrite(TMC429_IDX_VACTUAL(Motor)), Write429ZeroWrite(TMC429_IDX_VTARGET(Motor))>>

\* the two Write429Zero calls, in order
HardStopZeroes(Motor) ==
    <<Write429ZeroWrite(TMC429_IDX_VTARGET(Motor)), Write429ZeroWrite(TMC429_IDX_VACTUAL(Motor))>>

\* HardStop, one step per telegram: the read and the write-back of
\* Set429RampMode, then the two zero writes
HardStopRead(p, Motor) ==
    /\ CanCall(p)
    /\ SetterRead(p, TheCall("HardStop", Motor, 0, NoBytes),
                  Set429RampModeAddress(Motor), "hs_write")

HardStopWrite(p) ==
    /\ pc[p] = "hs_write"
    /\ Step(p, HardStopWriteBack(call[p].a, Read[p]), "hs_vtarget")

HardStopVTarget(p) ==
    /\ pc[p] = "hs_vtarget"
    /\ Step(p, HardStopZeroes(call[p].a)[1], "hs_vactual")

HardStopVActual(p) ==
    /\ pc[p] = "hs_vactual"
    /\ Step(p, HardStopZeroes(call[p].a)[2], "done")

\* what SetAMax keeps of its Read429Bytes call: the device after it and Data
SetAMaxReads(d, Motor) ==
    {[dev |-> X.dev, Data |-> Read429BytesBytes(X.Read)] :
        X \in ReadOutcomes(d, TMC429_IDX_PULSEDIV_RAMPDIV(Motor))}

\* (variant: the divider byte taken from the top byte)
SetAMaxPulseRampDivTop(Data) == Data[1]

\* PulseRampDiv = Data[1]
SetAMaxPulseRampDiv(Data) == Data[2]

\* a run of SetAMax on device d: the read of PULSEDIV_RAMPDIV, the search, the
\* two writes; the device after it, the telegrams sent, Data as read
SetAMaxRuns(d, Motor, AMax) ==
    UNION {{LET W2 == Write429BytesWrite(TMC429_IDX_PMUL_PDIV(Motor), SetAMaxData(pmpd))
                X2 == ReadWrite429(R1.dev, W2, 0)
                W3 == Write429U16Write(TMC429_IDX_AMAX(Motor), SetAMaxMask(AMax))
                X3 == ReadWrite429(X2.dev, W3, 0)
            IN  [dev |-> X3.dev,
                 logs |-> <<ReadLog(TMC429_IDX_PULSEDIV_RAMPDIV(Motor)), W2, W3>>,
                 Data |-> R1.Data] :
              pmpd \in SetAMaxSearches(SetAMaxMask(AMax), SetAMaxPulseRampDiv(R1.Data))} :
           R1 \in SetAMaxReads(d, Motor)}

\* SetAMax as one step
SetAMax(p, Motor, AMax) ==
    /\ CanCall(p)
    /\ \E E \in SetAMaxRuns(dev, Motor, AMax) :
          OneShot(p, TheCall("SetAMax", Motor, AMax, NoBytes), E.logs, E.dev,
                  <<0>>, E.Data)

----------------------------------------------------------------------------
(* Init429, statement by statement: the zero loop over the three register   *)
(* blocks, the two global writes, and the five statements per axis.         *)

Statement(op, a, v, b) == [op |-> op, a |-> a, v |-> v, b |-> b]

\* (variant: the loops nested the other way round)
Init429ZeroLoopByAddr ==
    [i \in 1..(3 * (TMC429_IDX_XLATCHED + 1)) |->
        LET motor == (i - 1) % 3
            addr == (i - 1) \div 3
        IN  Statement("Write429Zero", BitOr(addr, TMC429_MOTOR(motor)), 0, NoBytes)]

\* for motor = 0..2, for addr = 0..TMC429_IDX_XLATCHED: Write429Zero(addr | TMC429_MOTOR(motor))
Init429ZeroLoop ==
    [i \in 1..(3 * (TMC429_IDX_XLATCHED + 1)) |->
        LET motor == (i - 1) \div (TMC429_IDX_XLATCHED + 1)
            addr == (i - 1) % (TMC429_IDX_XLATCHED + 1)
        IN  Statement("Write429Zero", BitOr(addr, TMC429_MOTOR(motor)), 0, NoBytes)]

Init429Global ==
    << Statement("Write429U24", TMC429_IDX_IF_CONFIG_429,
                 BitOr(BitOr(TMC429_IFCONF_EN_SD, TMC429_IFCONF_EN_REFR), TMC429_IFCONF_SDO_INT),
                 NoBytes),
       Statement("Write429Datagram", TMC429_IDX_SMGP, 0, <<0, 0, 2>>) >>

\* (variant: the solver called before the dividers are written)
Init429AxisSolverFirst(motor) ==
    << Statement("SetAMax", motor, 1000, NoBytes),
       Statement("Write429Datagram", TMC429_IDX_PULSEDIV_RAMPDIV(motor), 0, <<0, 55, 6>>),
       Statement("Write429Datagram", TMC429_IDX_REFCONF_RM(motor), 0, <<0, TMC429_NO_REF, 0>>),
       Statement("Write429U16", TMC429_IDX_VMIN(motor), 1, NoBytes),
       Statement("Write429U24", TMC429_IDX_VMAX(motor), 1000, NoBytes) >>

\* the body of the second loop
Init429Axis(motor) ==
    << Statement("Write429Datagram", TMC429_IDX_PULSEDIV_RAMPDIV(motor), 0, <<0, 55, 6>>),
       Statement("Write429Datagram", TMC429_IDX_REFCONF_RM(motor), 0, <<0, TMC429_NO_REF, 0>>),
       Statement("Write429U16", TMC429_IDX_VMIN(motor), 1, NoBytes),
       Statement("Write429U24", TMC429_IDX_VMAX(motor), 1000, NoBytes),
       Statement("SetAMax", motor, 1000, NoBytes) >>

Init429Statements ==
    Init429ZeroLoop \o Init429Global \o Init429Axis(0) \o Init429Axis(1) \o Init429Axis(2)

\* one write telegram sent to device d
Sent(d, W) == {[dev |-> ReadWrite429(d, W, 0).dev, logs |-> <<W>>, Data |-> NoBytes]}

\* what a statement of Init429 does on device d
Init429Effects(d, st) ==
    IF st.op = "Write429Zero" THEN Sent(d, Write429ZeroWrite(st.a))
    ELSE IF st.op = "Write429U24" THEN Sent(d, Write429U24Write(st.a, st.v))
    ELSE IF st.op = "Write429U16" THEN Sent(d, Write429U16Write(st.a, st.v))
    ELSE IF st.op = "Write429Datagram"
         THEN Sent(d, Write429DatagramWrite(st.a, st.b[1], st.b[2], st.b[3]))
    ELSE SetAMaxRuns(d, st.a, st.v)

\* the call of Init429; call.v counts the statements executed
Init429Begin(p) ==
    /\ CanCall(p)
    /\ pc' = [pc EXCEPT ![p] = "init"]
    /\ call' = [call EXCEPT ![p] = TheCall("Init429", 0, 0, NoBytes)]
    /\ prev' = [prev EXCEPT ![p] = call[p]]
    /\ tx' = [tx EXCEPT ![p] = <<>>]
    /\ ret' = [ret EXCEPT ![p] = <<>>]
    /\ before' = dev
    /\ Bytes' = [Bytes EXCEPT ![p] = NoBytes]
    /\ intr' = [intr EXCEPT ![p] = FALSE]
    /\ budget' = budget - 1
    /\ UNCHANGED <<dev, Read, Write, RdBuf, spi, miso, stub>>

\* the next statement of Init429, and the return after the last
Init429Step(p) ==
    /\ pc[p] = "init"
    /\ \E E \in Init429Effects(dev, Init429Statements[call[p].v + 1]) :
          /\ dev' = E.dev
          /\ tx' = [tx EXCEPT ![p] = @ \o E.logs]
          /\ Bytes' = [Bytes EXCEPT ![p] = E.Data]
          /\ intr' = [q \in Callers |-> IF q = p THEN intr[q] ELSE intr[q] \/ Hits(q, E.logs)]
    /\ call' = [call EXCEPT ![p].v = @ + 1]
    /\ pc' = [pc EXCEPT ![p] = IF call[p].v + 1 = Len(Init429Statements) THEN "done" ELSE "init"]
    /\ UNCHANGED <<prev, Read, ret, before, budget, Write, RdBuf, spi, miso, stub>>

----------------------------------------------------------------------------
(* ReadWrite429 byte by byte: the four ReadWriteSPI calls, in the order of *)
(* the four statements, each with the index it sends and stores and the    *)
(* flag it passes.                                                         *)

\* (variant: the bus is released one byte early)
ReadWrite429CallsEarly ==
    << <<1, FALSE>>, <<2, FALSE>>, <<3, TRUE>>, <<4, TRUE>> >>

ReadWrite429Calls ==
    << <<1, FALSE>>, <<2, FALSE>>, <<3, FALSE>>, <<4, TRUE>> >>

ByteSamples == {0, 90, 255}

\* the injected transport: what a ReadWriteSPI call can return for a sent byte
ReadWriteSPI(s, byte) == IF s = "loopback" THEN {byte} ELSE ByteSamples

ReadWrite429Transfer ==
    /\ Len(spi) < Len(ReadWrite429Calls)
    /\ LET c == ReadWrite429Calls[Len(spi) + 1]
       IN  \E r \in ReadWriteSPI(stub, Write[c[1]]) :
              /\ spi' = Append(spi, <<Write[c[1]], c[2]>>)
              /\ miso' = Append(miso, r)
              /\ RdBuf' = [RdBuf EXCEPT ![c[1]] = r]
    /\ UNCHANGED <<Write, stub>>
    /\ UNCHANGED callVars

----------------------------------------------------------------------------
(* Initial states and inputs.                                              *)

DevPowerUp == <<>>

CallersInit(active, n) ==
    /\ pc = [p \in Callers |-> IF p \in active THEN "idle" ELSE "off"]
    /\ call = [p \in Callers |-> NoCall]
    /\ prev = [p \in Callers |-> NoCall]
    /\ Read = [p \in Callers |-> NoRead]
    /\ ret = [p \in Callers |-> <<>>]
    /\ tx = [p \in Callers |-> <<>>]
    /\ before = dev
    /\ Bytes = [p \in Callers |-> NoBytes]
    /\ intr = [p \in Callers |-> FALSE]
    /\ budget = n

SPIIdle ==
    /\ Write = NoRead
    /\ RdBuf = <<Indet, Indet, Indet, Indet>>
    /\ spi = <<>>
    /\ miso = <<>>
    /\ stub = "none"

\* the register a caller's last call addressed
LastReg(p) ==
    IF call[p].fn \in {"Set429RampMode", "Set429SwitchMode"}
    THEN TMC429_IDX_REFCONF_RM(call[p].a)
    ELSE call[p].a

RampModes == 0..3
SwitchModes == {0, TMC429_NO_REF, 48}

(* Byte level: every buffer of sample bytes, against both transports.      *)
InitSPI ==
    /\ dev = DevPowerUp
    /\ CallersInit({}, 0)
    /\ Write \in ByteSamples \X ByteSamples \X ByteSamples \X ByteSamples
    /\ RdBuf = <<Indet, Indet, Indet, Indet>>
    /\ spi = <<>>
    /\ miso = <<>>
    /\ stub \in {"loopback", "device"}

NextSPI == ReadWrite429Transfer

SpecSPI == InitSPI /\ [][NextSPI]_vars

(* One caller, a write drawn from wide ranges, then calls on the register  *)
(* it addressed.                                                           *)
SeqCalls == 2
MaxShort == 65535
NegShort == 2048
SweepAddress == TMC429_IDX_AMAX(0)
SampleAddrs == {TMC429_IDX_REFCONF_RM(m) : m \in Motors} \cup {TMC429_IDX_VTARGET(1), 126}
ShortSamples == {0, 1, 255, 256, 2047, 2048, 4660, 65535, 74565, 0 - 1, 0 - 2048, 0 - 2049}
ShortCalls ==
    ({SweepAddress} \X ((0 - NegShort)..MaxShort)) \cup (SampleAddrs \X ShortSamples)
IntSamples ==
    {0, 1, 255, 256, 65535, 65536, 1193046, 8388607, 8388608, 16777215, 16777221,
     0 - 1, 0 - 2, 0 - 256, 0 - 65536, 0 - 1193046, 0 - 8388608, 0 - 8388609}
Payloads == ByteSamples \X ByteSamples \X ByteSamples
\* Index as documented: 0..3
Indexes == 0..3

InitAcc ==
    /\ dev = DevPowerUp
    /\ CallersInit({1}, SeqCalls)
    /\ SPIIdle

First == budget = SeqCalls

NextAcc ==
    \E p \in Callers :
       \/ CanCall(p) /\ First /\ \E c \in ShortCalls : Write429Short(p, c[1], c[2])
       \/ CanCall(p) /\ First /\ \E A \in SampleAddrs, V \in IntSamples : Write429Int(p, A, V)
       \/ CanCall(p) /\ First /\ \E A \in SampleAddrs : Write429Zero(p, A)
       \/ CanCall(p) /\ First /\ \E A \in SampleAddrs, B \in Payloads : Write429Bytes(p, A, B)
       \/ CanCall(p) /\ First /\ \E A \in SampleAddrs, B \in Payloads :
                                    Write429Datagram(p, A, B[1], B[2], B[3])
       \/ CanCall(p) /\ ~First /\ LastReg(p) \in SampleAddrs /\ Read429Bytes(p, LastReg(p))
       \/ CanCall(p) /\ ~First /\ LastReg(p) \in SampleAddrs /\ \E Index \in Indexes :
                                     Read429SingleByte(p, LastReg(p), Index)
       \/ CanCall(p) /\ ~First /\ Read429Int12(p, LastReg(p))
       \/ CanCall(p) /\ ~First /\ LastReg(p) \in SampleAddrs /\ Read429Int24(p, LastReg(p))
       \/ CanCall(p) /\ \E Axis \in Motors, RampMode \in RampModes :
             /\ First \/ TMC429_IDX_REFCONF_RM(Axis) = LastReg(p)
             /\ Set429RampModeRead(p, Axis, RampMode)
       \/ Set429RampModeWrite(p)
       \/ CanCall(p) /\ \E Axis \in Motors, SwitchMode \in SwitchModes :
             /\ First \/ TMC429_IDX_REFCONF_RM(Axis) = LastReg(p)
             /\ Set429SwitchModeRead(p, Axis, SwitchMode)
       \/ Set429SwitchModeWrite(p)

SpecAcc == InitAcc /\ [][NextAcc]_vars

(* SetAMax: every acceleration against every difference of the two        *)
(* dividers, and sample accelerations against every divider byte.          *)
MaxAMax == 2050
AMaxSamples == {0, 1, 2, 1000, 2047, 2048, 3047, 4095, 4096, 65536, 1000000}
SweepDivs == {k : k \in 0..15} \cup {16 * k : k \in 0..15} \cup {55, 118, 255}
AMaxCalls(d) ==
    LET prd == Reg(d, TMC429_IDX_PULSEDIV_RAMPDIV(0))[2]
    IN  (IF prd \in SweepDivs THEN {0} \X (0..MaxAMax) ELSE {})
           \cup (Motors \X AMaxSamples)

InitAMax ==
    /\ \E prd \in Byte :
          dev = (TMC429_IDX_PULSEDIV_RAMPDIV(0) :> <<0, prd, 6>>)
    /\ CallersInit({1}, 1)
    /\ SPIIdle

NextAMax ==
    \E p \in Callers : CanCall(p) /\ \E c \in AMaxCalls(dev) : SetAMax(p, c[1], c[2])

SpecAMax == InitAMax /\ [][NextAMax]_vars

(* SetAMax by two callers, for any axis, after writes to the divider       *)
(* registers and after earlier SetAMax calls.                              *)
PureCalls == 3
PureAxes == {0, 1}
PureAMax == {1000, 2047}
PureDivs == {<<0, 55, 6>>, <<7, 240, 0>>}

InitPure ==
    /\ dev \in {DevPowerUp} \cup
              {(TMC429_IDX_PULSEDIV_RAMPDIV(0) :> d0) @@ (TMC429_IDX_PULSEDIV_RAMPDIV(1) :> d1) :
                  d0 \in PureDivs \cup {<<9, 55, 0>>}, d1 \in PureDivs}
    /\ CallersInit({1, 2}, PureCalls)
    /\ SPIIdle

NextPure ==
    \E p \in Callers :
       \/ CanCall(p) /\ \E Motor \in PureAxes, AMax \in PureAMax : SetAMax(p, Motor, AMax)
       \/ CanCall(p) /\ \E Motor \in PureAxes, B \in PureDivs :
             Write429Datagram(p, TMC429_IDX_PULSEDIV_RAMPDIV(Motor), B[1], B[2], B[3])

SpecPure == InitPure /\ [][NextPure]_vars

(* HardStop by one caller after writes to the axis's registers, alone or   *)
(* with a second caller reading the axis's registers in between.           *)
StopCalls == 3
StopAxes == {0, 1}
StopPayloads == {<<0, 3, 232>>, <<255, 252, 24>>, <<0, 0, TMC429_RM_VELOCITY>>}
StopRegs(Motor) ==
    {TMC429_IDX_REFCONF_RM(Motor), TMC429_IDX_VTARGET(Motor), TMC429_IDX_VACTUAL(Motor)}

InitStop ==
    /\ dev = DevPowerUp
    /\ \E active \in {{1}, {1, 2}} : CallersInit(active, StopCalls)
    /\ SPIIdle

NextStop ==
    \/ CanCall(1) /\ call[1].fn # "HardStop" /\ \E Motor \in StopAxes, B \in StopPayloads :
          \E A \in StopRegs(Motor) : Write429Datagram(1, A, B[1], B[2], B[3])
    \/ CanCall(1) /\ call[1].fn # "HardStop" /\ \E Motor \in StopAxes : HardStopRead(1, Motor)
    \/ HardStopWrite(1)
    \/ HardStopVTarget(1)
    \/ HardStopVActual(1)
    \/ CanCall(2) /\ \E Motor \in StopAxes : \E A \in StopRegs(Motor) : Read429Bytes(2, A)

SpecStop == InitStop /\ [][NextStop]_vars

(* Init429 by one caller, on a device fresh from power-up or with its      *)
(* divider registers already written.                                      *)
InitDevs ==
    {DevPowerUp} \cup
    {(TMC429_IDX_PULSEDIV_RAMPDIV(0) :> d0) @@ (TMC429_IDX_PULSEDIV_RAMPDIV(2) :> d2) :
        d0 \in PureDivs, d2 \in PureDivs}

InitInit ==
    /\ dev \in InitDevs
    /\ CallersInit({1}, 1)
    /\ SPIIdle

NextInit ==
    \E p \in Callers : Init429Begin(p) \/ Init429Step(p)

SpecInit == InitInit /\ [][NextInit]_vars

(* Several callers on one bus, telegram by telegram.                       *)
MaxCalls == 3
RaceAxes == {0, 1}
RacePayloads == {<<10, 11, 12>>}

Init ==
    /\ dev = DevPowerUp
    /\ CallersInit(Callers, MaxCalls)
    /\ SPIIdle

Next ==
    \E p \in Callers :
       \/ \E Axis \in RaceAxes : Set429RampModeRead(p, Axis, TMC429_RM_VELOCITY)
       \/ Set429RampModeWrite(p)
       \/ \E Axis \in RaceAxes : Set429SwitchModeRead(p, Axis, TMC429_NO_REF)
       \/ Set429SwitchModeWrite(p)
       \/ \E Axis \in RaceAxes, B \in RacePayloads :
             Write429Datagram(p, TMC429_IDX_REFCONF_RM(Axis), B[1], B[2], B[3])

Spec == Init /\ [][Next]_vars

----------------------------------------------------------------------------
(* Properties.                                                             *)

Done(p, fn) == pc[p] = "done" /\ call[p].fn = fn

\* C1: ReadWrite429 makes exactly four ReadWriteSPI calls, sending Write[0..3]
\* in that order, with the final-byte flag set on the fourth and on no other;
\* Read[i] is what the i-th call returned, so a loopback transport gives
\* Read = Write.
C1_FourTransfersInOrder ==
    /\ Len(spi) <= 4
    /\ Len(spi) < 4 => ENABLED ReadWrite429Transfer
    /\ Len(spi) = 4 => ~ENABLED ReadWrite429Transfer
    /\ \A i \in 1..Len(spi) : spi[i] = <<Write[i], i = 4>> /\ RdBuf[i] = miso[i]
    /\ (Len(spi) = 4 /\ stub = "loopback") => RdBuf = Write

C1_Witness ==
    /\ Len(spi) = 4
    /\ stub = "loopback"
    /\ Write = <<90, 0, 255, 90>>
    /\ RdBuf = Write

\* C2: every typed write accessor sends one telegram, the address first and
\* the payload most significant byte first; Write429Bytes and Write429Datagram
\* send their three bytes as given.
C2_WriteTelegrams ==
    \A p \in Callers :
       LET A == call[p].a
           V == call[p].v
           B == call[p].b
       IN  /\ Done(p, "Write429Short") =>
                /\ tx[p] = << <<A, 0, (V \div 256) % 256, V % 256>> >>
                /\ V \in 0..65535 => tx[p][1][3] * 256 + tx[p][1][4] = V
           /\ Done(p, "Write429Int") =>
                /\ tx[p] = << <<A, (V \div 65536) % 256, (V \div 256) % 256, V % 256>> >>
                /\ V \in 0..16777215 =>
                      tx[p][1][2] * 65536 + tx[p][1][3] * 256 + tx[p][1][4] = V
           /\ Done(p, "Write429Zero") => tx[p] = << <<A, 0, 0, 0>> >>
           /\ Done(p, "Write429Bytes") => tx[p] = << <<A, B[1], B[2], B[3]>> >>
           /\ Done(p, "Write429Datagram") => tx[p] = << <<A, B[1], B[2], B[3]>> >>

C2_Witness ==
    /\ Done(1, "Write429Short")
    /\ call[1].v = 4660
    /\ tx[1] = << <<TMC429_IDX_AMAX(0), 0, 18, 52>> >>

\* C3: against the device that stores what is written, Write429Int(A, v) then
\* Read429Int24(A) returns v for every v in -2^23 .. 2^23-1, and
\* Write429Short(A, v) then Read429Int12(A) returns v for every v in -2048..2047.
C3_SignedRoundTrip ==
    \A p \in Callers :
       /\ (/\ Done(p, "Read429Int24")
           /\ prev[p].fn = "Write429Int"
           /\ prev[p].a = call[p].a
           /\ prev[p].v \in (0 - 8388608)..8388607) => ret[p] = <<prev[p].v>>
       /\ (/\ Done(p, "Read429Int12")
           /\ prev[p].fn = "Write429Short"
           /\ prev[p].a = call[p].a
           /\ prev[p].v \in (0 - 2048)..2047) => ret[p] = <<prev[p].v>>

C3_Witness ==
    /\ Done(1, "Read429Int24")
    /\ prev[1].fn = "Write429Int"
    /\ prev[1].a = call[1].a
    /\ prev[1].v = 0 - 1
    /\ ret[1] = <<0 - 1>>

\* the sign extension of the low 12 bits of w, bit 11 being the sign
SignExtend12(w) == IF w % 4096 >= 2048 THEN (w % 4096) - 4096 ELSE w % 4096

\* C4: Read429Int12 returns the sign extension of the low 12 bits of the two
\* low payload bytes of the register it reads: a value in -2048..2047 that no
\* bit above bit 11 of those bytes influences.
C4_Int12IsTwelveBits ==
    \A p \in Callers :
       Done(p, "Read429Int12") =>
          LET r == Reg(dev, call[p].a)
          IN  /\ ret[p] = <<SignExtend12(r[2] * 256 + r[3])>>
              /\ ret[p][1] \in (0 - 2048)..2047

\* C5: with nothing else on the bus, Set429RampMode(Axis, r) turns REFCONF_RM
\* of the axis from (h, m, l) into (h, m, r), Set429SwitchMode(Axis, s) turns
\* it into (h, s, l), and every other register is as it was before the call.
C5_SetterChangesOneByte ==
    \A p \in Callers :
       LET a == TMC429_IDX_REFCONF_RM(call[p].a)
           old == Reg(before, a)
       IN  /\ Done(p, "Set429RampMode") =>
                /\ Reg(dev, a) = <<old[1], old[2], call[p].v>>
                /\ SameRegs(dev, before, RegAddrs \ {a})
           /\ Done(p, "Set429SwitchMode") =>
                /\ Reg(dev, a) = <<old[1], call[p].v, old[3]>>
                /\ SameRegs(dev, before, RegAddrs \ {a})

C5_Witness ==
    /\ Done(1, "Set429RampMode")
    /\ prev[1].fn = "Write429Datagram"
    /\ prev[1].b = <<90, 255, 0>>
    /\ call[1] = TheCall("Set429RampMode", 1, TMC429_RM_VELOCITY, NoBytes)
    /\ Reg(dev, TMC429_IDX_REFCONF_RM(1)) = <<90, 255, TMC429_RM_VELOCITY>>
    /\ Reg(before, TMC429_IDX_REFCONF_RM(1)) = <<90, 255, 0>>

\* C6: when another caller's write to the same REFCONF_RM register falls
\* between a mode setter's read and its write-back, the write-back stores the
\* bytes the setter read earlier in the positions it preserves, whatever the
\* register holds by then: the other write is lost.
C6_InterleavedWriteLost ==
    [][\A p \in Callers :
          (intr[p] /\ pc'[p] = "done") =>
             LET a == TMC429_IDX_REFCONF_RM(call[p].a)
             IN  /\ pc[p] = "rm_write" =>
                      Reg(dev', a) = <<Read[p][2], Read[p][3], call[p].v>>
                 /\ pc[p] = "sm_write" =>
                      Reg(dev', a) = <<Read[p][2], call[p].v, Read[p][4]>>]_vars

\* both setters have run on one axis, overlapping, and the switch mode is gone
C6_Witness ==
    \E p, q \in Callers :
       /\ p # q
       /\ Done(p, "Set429RampMode")
       /\ Done(q, "Set429SwitchMode")
       /\ call[p].a = call[q].a
       /\ intr[p]
       /\ Reg(dev, TMC429_IDX_REFCONF_RM(call[p].a))[3] = call[p].v
       /\ Reg(dev, TMC429_IDX_REFCONF_RM(call[p].a))[2] # call[q].v

\* floor(p_reduced * 8 * 2^pdiv), where it is at most 255 (else 256)
FloorProduct(pr, pdiv) ==
    LET t == pr.e + 3 + pdiv
    IN  IF pr.m = 0 THEN 0
        ELSE IF t >= 0 THEN 256
        ELSE IF 0 - t >= 25 THEN 0
        ELSE IF pr.m \div (2 ^ (0 - t)) > 255 THEN 256
        ELSE pr.m \div (2 ^ (0 - t))

\* the pdiv in 0..13 with floor(p_reduced * 8 * 2^pdiv) - 128 in 0..127
ValidPDivs(pr) == {pdiv \in 0..13 : FloorProduct(pr, pdiv) - 128 \in 0..127}
MaxOf(S) == CHOOSE x \in S : \A y \in S : y <= x

\* p_reduced of the SetAMax call caller p has made
PReducedOf(p) ==
    SetAMaxPReduced(SetAMaxP(call[p].v % 2048,
                             Reg(before, TMC429_IDX_PULSEDIV_RAMPDIV(call[p].a))[2]))

\* C7: for AMax in 0..2047, when some pdiv in 0..13 gives a pmul in 0..127,
\* SetAMax writes (0, pmul + 128, pd) to PMUL_PDIV with pd the largest such
\* pdiv and pmul its pmul.
C7_LargestValidPDiv ==
    \A p \in Callers :
       (Done(p, "SetAMax") /\ call[p].v \in 0..2047 /\ ValidPDivs(PReducedOf(p)) # {}) =>
          LET pd == MaxOf(ValidPDivs(PReducedOf(p)))
          IN  tx[p][2] = <<TMC429_IDX_PMUL_PDIV(call[p].a), 0,
                           FloorProduct(PReducedOf(p), pd), pd>>

C7_Witness ==
    /\ Done(1, "SetAMax")
    /\ call[1].v = 1000
    /\ call[1].a = 0
    /\ Reg(before, TMC429_IDX_PULSEDIV_RAMPDIV(0))[2] = 55
    /\ ValidPDivs(PReducedOf(1)) = {6}
    /\ tx[1][2] = <<TMC429_IDX_PMUL_PDIV(0), 0, 247, 6>>

\* C8: what SetAMax writes to PMUL_PDIV has its PMUL byte in 0..255 and its
\* PDIV byte in 0..13, for every AMax and every divider byte.
C8_PairInRange ==
    \A p \in Callers :
       Done(p, "SetAMax") => tx[p][2][3] \in 0..255 /\ tx[p][2][4] \in 0..13

\* C9: SetAMax returns 0 for every input, and when no pdiv in 0..13 gives a
\* pmul in 0..127 it still makes both writes: (0, 0xFF, 0xFF) to PMUL_PDIV,
\* then the masked AMax to AMAX.
C9_FallbackWritten ==
    \A p \in Callers :
       Done(p, "SetAMax") =>
          LET m == call[p].v % 2048
          IN  /\ ret[p] = <<0>>
              /\ Len(tx[p]) = 3
              /\ tx[p][1][1] = TMC429_IDX_PULSEDIV_RAMPDIV(call[p].a) + TMC429_READ
              /\ tx[p][3] = <<TMC429_IDX_AMAX(call[p].a), 0, m \div 256, m % 256>>
              /\ ValidPDivs(PReducedOf(p)) = {} =>
                    /\ tx[p][2] = <<TMC429_IDX_PMUL_PDIV(call[p].a), 0, 255, 255>>
                    /\ Reg(dev, TMC429_IDX_PMUL_PDIV(call[p].a)) = <<0, 255, 255>>
                    /\ Reg(dev, TMC429_IDX_AMAX(call[p].a)) = <<0, m \div 256, m % 256>>

C9_Witness ==
    /\ Done(1, "SetAMax")
    /\ call[1].v = 0
    /\ ret[1] = <<0>>
    /\ tx[1][2] = <<TMC429_IDX_PMUL_PDIV(call[1].a), 0, 255, 255>>
    /\ tx[1][3] = <<TMC429_IDX_AMAX(call[1].a), 0, 0, 0>>

\* C10 as stated: the value written to AMAX is AMax clamped to 0..2047, a
\* request above 2047 being written as 2047.
C10_Clamped ==
    \A p \in Callers :
       Done(p, "SetAMax") =>
          LET c == IF call[p].v > 2047 THEN 2047 ELSE call[p].v
          IN  tx[p][3] = <<TMC429_IDX_AMAX(call[p].a), 0, c \div 256, c % 256>>

\* C10 amended: the value written to AMAX is the low 11 bits of AMax (AMax
\* mod 2048): a request in 0..2047 is written unchanged, a request above 2047
\* is written as its remainder; the PMUL/PDIV pair is computed from the same
\* value.
C10_Masked ==
    \A p \in Callers :
       Done(p, "SetAMax") =>
          LET m == call[p].v % 2048
          IN  /\ tx[p][3] = <<TMC429_IDX_AMAX(call[p].a), 0, m \div 256, m % 256>>
              /\ call[p].v \in 0..2047 => tx[p][3][3] * 256 + tx[p][3][4] = call[p].v
              /\ ValidPDivs(PReducedOf(p)) # {} =>
                    tx[p][2][4] = MaxOf(ValidPDivs(PReducedOf(p)))
              /\ ValidPDivs(PReducedOf(p)) = {} => tx[p][2][4] = 255

C10_Witness ==
    /\ Done(1, "SetAMax")
    /\ call[1].v = 3047
    /\ tx[1][3] = <<TMC429_IDX_AMAX(call[1].a), 0, 3, 231>>

----------------------------------------------------------------------------
\* the three payload bytes of a telegram
Payload(tel) == <<tel[2], tel[3], tel[4]>>

\* C11: the payloads SetAMax writes to PMUL_PDIV and to AMAX depend only on
\* the requested AMax and on the middle payload byte its read of
\* PULSEDIV_RAMPDIV returned (Bytes[2] of the three it was handed): two calls, on any axes and in any device
\* states, with the same AMax and the same divider byte write the same payloads.
C11_SetAMaxPure ==
    \A p, q \in Callers :
       (/\ Done(p, "SetAMax") /\ Done(q, "SetAMax")
        /\ call[p].v = call[q].v
        /\ Bytes[p][2] = Bytes[q][2])
       => /\ Len(tx[p]) = 3 /\ Len(tx[q]) = 3
          /\ Payload(tx[p][2]) = Payload(tx[q][2])
          /\ Payload(tx[p][3]) = Payload(tx[q][3])

\* two calls with the same AMax and divider byte, on different axes, whose
\* reads differed in the other bytes, after a third call
C11_Witness ==
    /\ Done(1, "SetAMax") /\ Done(2, "SetAMax")
    /\ call[1].v = call[2].v
    /\ call[1].a # call[2].a
    /\ Bytes[1][2] = Bytes[2][2]
    /\ Bytes[1][1] # Bytes[2][1]
    /\ budget = 0

\* C12: for every Index in 0..3, Read429SingleByte sends one read telegram
\* and returns a byte of the response it received, payload byte Index for
\* Index 0..2; the element it reads, Read[Index+1], lies inside Read[0..3].
C12_SingleByteInResponse ==
    \A p \in Callers :
       Done(p, "Read429SingleByte")
       => /\ tx[p] = <<ReadLog(call[p].a)>>
          /\ call[p].v + 1 \in 0..3
          /\ ret[p][1] \in {Read[p][i] : i \in 1..4}
          /\ (call[p].v \in 0..2 => ret[p][1] = Read[p][call[p].v + 2])

----------------------------------------------------------------------------
Zeroes == <<0, 0, 0>>
Alone(p) == \A q \in Callers \ {p} : pc[q] = "off"
InHardStop(p, at) == call[p].fn = "HardStop" /\ pc[p] = at

\* C13: HardStop(Motor) sends four telegrams in this order: the read of
\* REFCONF_RM, its write-back with the two upper bytes as read and the low
\* byte TMC429_RM_VELOCITY, the zero write to VTARGET, the zero write to
\* VACTUAL. With no other caller, the mode is velocity before either velocity
\* is zeroed, and after the return the axis is in velocity mode with the other
\* two REFCONF_RM bytes unchanged, VTARGET = 0, VACTUAL = 0 and every other
\* register as it was.
C13_HardStopSequence ==
    \A p \in Callers :
       LET m == call[p].a
           rm == TMC429_IDX_REFCONF_RM(m)
           vt == TMC429_IDX_VTARGET(m)
           va == TMC429_IDX_VACTUAL(m)
           R == Read[p]
       IN  /\ (Alone(p) /\ InHardStop(p, "hs_vtarget"))
               => /\ Reg(dev, rm)[3] = TMC429_RM_VELOCITY
                  /\ Reg(dev, vt) = Reg(before, vt)
                  /\ Reg(dev, va) = Reg(before, va)
           /\ (Alone(p) /\ InHardStop(p, "done"))
               => /\ tx[p] = << ReadLog(rm),
                                <<rm, R[2], R[3], TMC429_RM_VELOCITY>>,
                                <<vt, 0, 0, 0>>,
                                <<va, 0, 0, 0>> >>
                  /\ <<R[2], R[3], R[4]>> = Reg(before, rm)
                  /\ Reg(dev, rm) = <<Reg(before, rm)[1], Reg(before, rm)[2], TMC429_RM_VELOCITY>>
                  /\ Reg(dev, vt) = Zeroes
                  /\ Reg(dev, va) = Zeroes
                  /\ SameRegs(dev, before, RegAddrs \ {rm, vt, va})

\* a HardStop that returned, of an axis that was not in velocity mode and
\* whose velocities were not zero, after a write to one of its registers
C13_Witness ==
    /\ Alone(1) /\ InHardStop(1, "done")
    /\ prev[1].fn = "Write429Datagram"
    /\ Reg(before, TMC429_IDX_REFCONF_RM(call[1].a))[3] # TMC429_RM_VELOCITY
    /\ Reg(before, TMC429_IDX_VTARGET(call[1].a)) # Zeroes
    /\ Reg(before, TMC429_IDX_VACTUAL(call[1].a)) # Zeroes
    /\ Reg(dev, TMC429_IDX_VTARGET(call[1].a)) = Zeroes

\* C14: HardStop is not atomic. Between its write-back and its zero write to
\* VTARGET the device has the axis in velocity mode with VTARGET and VACTUAL
\* as before the stop, and between the two zero writes VTARGET is zero with
\* VACTUAL as before the stop; a read of VTARGET by another caller that
\* began after the mode was switched returns the value not yet zeroed.
C14_HalfAppliedStop ==
    \A p \in Callers :
       LET m == call[p].a
           rm == TMC429_IDX_REFCONF_RM(m)
           vt == TMC429_IDX_VTARGET(m)
           va == TMC429_IDX_VACTUAL(m)
       IN  /\ InHardStop(p, "hs_vtarget")
               => /\ Reg(dev, rm)[3] = TMC429_RM_VELOCITY
                  /\ Reg(dev, vt) = Reg(before, vt)
                  /\ Reg(dev, va) = Reg(before, va)
                  /\ \A q \in Callers \ {p} :
                        (/\ Done(q, "Read429Bytes") /\ call[q].a = vt
                         /\ Read[p][4] # TMC429_RM_VELOCITY
                         /\ Reg(before, rm)[3] = TMC429_RM_VELOCITY)
                        => Bytes[q] = Reg(dev, vt)
           /\ InHardStop(p, "hs_vactual")
               => /\ Reg(dev, rm)[3] = TMC429_RM_VELOCITY
                  /\ Reg(dev, vt) = Zeroes
                  /\ Reg(dev, va) = Reg(before, va)

\* the second caller has read a non-zero VTARGET of an axis that HardStop has
\* already switched to velocity mode
C14_Witness ==
    /\ InHardStop(1, "hs_vtarget")
    /\ Read[1][4] # TMC429_RM_VELOCITY
    /\ Reg(before, TMC429_IDX_REFCONF_RM(call[1].a))[3] = TMC429_RM_VELOCITY
    /\ Done(2, "Read429Bytes")
    /\ call[2].a = TMC429_IDX_VTARGET(call[1].a)
    /\ Bytes[2] # Zeroes
    /\ Reg(dev, TMC429_IDX_REFCONF_RM(call[1].a))[3] = TMC429_RM_VELOCITY

----------------------------------------------------------------------------
\* the telegrams of Init429's first phase, and the axis and addr of the i-th
ZeroCount == 3 * (TMC429_IDX_XLATCHED + 1)
ZeroAxis(i) == (i - 1) \div (TMC429_IDX_XLATCHED + 1)
ZeroAddr(i) == (i - 1) % (TMC429_IDX_XLATCHED + 1)
BlockRegs == {BitOr(2 * k, TMC429_MOTOR(motor)) :
                 k \in 0..(TMC429_IDX_XLATCHED \div 2), motor \in Motors}

\* the first phase as stated: one telegram (addr | TMC429_MOTOR(axis)),
\* (0,0,0) for each axis and each addr, axis by axis, followed by the
\* interface-configuration write
ZeroPhaseOrder(p) ==
    /\ \A i \in 1..Len(tx[p]) :
          i <= ZeroCount
          => tx[p][i] = <<BitOr(ZeroAddr(i), TMC429_MOTOR(ZeroAxis(i))), 0, 0, 0>>
    /\ Len(tx[p]) > ZeroCount => tx[p][ZeroCount + 1][1] = TMC429_IDX_IF_CONFIG_429
    /\ \A i \in 1..Len(tx[p]) :
          i > ZeroCount + 2
          => RegOf(tx[p][i]) \in {BitOr(a, TMC429_MOTOR(motor)) : a \in {4, 6, 12, 18, 20, 24},
                                                                  motor \in Motors}

\* C15 (as stated): the first phase of Init429 sends one telegram
\* (addr | TMC429_MOTOR(axis)), (0,0,0) for each axis 0..2 and each addr in
\* 0..TMC429_IDX_XLATCHED, before the interface-configuration write and the
\* per-axis writes, and every one of them is a write telegram.
C15_ZeroPhaseAllWrites ==
    \A p \in Callers :
       call[p].fn = "Init429"
       => /\ ZeroPhaseOrder(p)
          /\ \A i \in 1..Len(tx[p]) : i <= ZeroCount => ~IsReadTelegram(tx[p][i])

\* C15 (amended): the telegrams are sent as stated; those with even addr are
\* write telegrams, those with odd addr carry TMC429_READ and are read
\* telegrams; when the phase ends every register of every axis's block up to
\* XLATCHED holds (0,0,0) and every other register is as it was.
C15_ZeroPhase ==
    \A p \in Callers :
       call[p].fn = "Init429"
       => /\ ZeroPhaseOrder(p)
          /\ \A i \in 1..Len(tx[p]) :
                i <= ZeroCount => (IsReadTelegram(tx[p][i]) <=> ZeroAddr(i) % 2 = 1)
          /\ Len(tx[p]) = ZeroCount
              => /\ \A a \in BlockRegs : Reg(dev, a) = Zeroes
                 /\ SameRegs(dev, before, RegAddrs \ BlockRegs)

\* the first phase has just ended on a device whose registers were not zero;
\* its second telegram was a read telegram
C15_Witness ==
    /\ call[1].fn = "Init429" /\ pc[1] = "init"
    /\ Len(tx[1]) = ZeroCount
    /\ IsReadTelegram(tx[1][2])
    /\ Reg(before, TMC429_IDX_PULSEDIV_RAMPDIV(2)) # Zeroes
    /\ Reg(dev, TMC429_IDX_PULSEDIV_RAMPDIV(2)) = Zeroes

\* where the telegrams of the axis's configuration begin
AxisStart(motor) == ZeroCount + 2 + 7 * motor

\* C16: in Init429 the write of (0x00,0x37,0x06) to PULSEDIV_RAMPDIV precedes
\* SetAMax's read of it, so the solver runs with divider byte 0x37 and AMax
\* 1000; after Init429 every axis holds PULSEDIV_RAMPDIV = (0,0x37,6),
\* REFCONF_RM = (0,TMC429_NO_REF,0), VMIN = 1, VMAX = 1000, AMAX = 1000 and
\* PMUL_PDIV = (0,247,6), a valid pair.
C16_InitAxisConfig ==
    \A p \in Callers :
       call[p].fn = "Init429"
       => /\ \A motor \in Motors :
                Len(tx[p]) >= AxisStart(motor) + 7
                => LET s == AxisStart(motor)
                   IN  /\ tx[p][s + 1] = <<TMC429_IDX_PULSEDIV_RAMPDIV(motor), 0, 55, 6>>
                       /\ tx[p][s + 2] = <<TMC429_IDX_REFCONF_RM(motor), 0, TMC429_NO_REF, 0>>
                       /\ tx[p][s + 3] = <<TMC429_IDX_VMIN(motor), 0, 0, 1>>
                       /\ tx[p][s + 4] = <<TMC429_IDX_VMAX(motor), 0, 3, 232>>
                       /\ tx[p][s + 5] = ReadLog(TMC429_IDX_PULSEDIV_RAMPDIV(motor))
                       /\ tx[p][s + 6] = <<TMC429_IDX_PMUL_PDIV(motor), 0, 247, 6>>
                       /\ tx[p][s + 7] = <<TMC429_IDX_AMAX(motor), 0, 3, 232>>
                       /\ Len(tx[p]) = s + 7 => Bytes[p] = <<0, 55, 6>>
          /\ pc[p] = "done"
              => /\ Len(tx[p]) = AxisStart(3)
                 /\ \A motor \in Motors :
                       /\ Reg(dev, TMC429_IDX_PULSEDIV_RAMPDIV(motor)) = <<0, 55, 6>>
                       /\ Reg(dev, TMC429_IDX_REFCONF_RM(motor)) = <<0, TMC429_NO_REF, 0>>
                       /\ Reg(dev, TMC429_IDX_VMIN(motor)) = <<0, 0, 1>>
                       /\ Reg(dev, TMC429_IDX_VMAX(motor)) = <<0, 3, 232>>
                       /\ Reg(dev, TMC429_IDX_AMAX(motor)) = <<0, 3, 232>>
                       /\ Reg(dev, TMC429_IDX_PMUL_PDIV(motor)) = <<0, 247, 6>>

\* Init429 has returned on a device whose divider register held another byte
C16_Witness ==
    /\ call[1].fn = "Init429" /\ pc[1] = "done"
    /\ Reg(before, TMC429_IDX_PULSEDIV_RAMPDIV(2))[2] = 240
    /\ Reg(dev, TMC429_IDX_PMUL_PDIV(2)) = <<0, 247, 6>>

----------------------------------------------------------------------------
\* the divider byte SetAMax was handed, its masked AMax, and p
DivByteOf(p) == Bytes[p][2]
AMaxOf(p) == call[p].v % 2048
POf(p) == SetAMaxP(AMaxOf(p), DivByteOf(p))

\* p = AMax / (128 * 2^(rd - pd)) for rd >= pd, AMax / (128 / 2^(pd - rd))
\* otherwise: AMax * 2^e with e = -(7 + rd - pd), respectively (pd - rd) - 7
PAsStated(p, pd, rd) ==
    /\ POf(p).m = AMaxOf(p)
    /\ POf(p).e = IF rd >= pd THEN 0 - (7 + (rd - pd)) ELSE (pd - rd) - 7

\* C17 (as stated): the divider byte 0x76 gives pulse_div = 6 and
\* ramp_div = 7, p is computed by the two-branch formula, and for AMax = 1000
\* with divider byte 0x76 the branch ramp_div >= pulse_div is taken with
\* exponent 1.
C17_DecodeAsStated ==
    \A p \in Callers :
       Done(p, "SetAMax")
       => /\ DivByteOf(p) = 118
              => /\ pulse_div(DivByteOf(p)) = 6
                 /\ ramp_div(DivByteOf(p)) = 7
                 /\ PAsStated(p, 6, 7)
          /\ PAsStated(p, pulse_div(DivByteOf(p)), ramp_div(DivByteOf(p)))

\* C17 (amended): pulse_div is the high nibble and ramp_div the low nibble of
\* the divider byte, so 0x76 gives pulse_div = 7 and ramp_div = 6; p is
\* computed by the two-branch formula, and for AMax = 1000 with divider byte
\* 0x76 the branch ramp_div < pulse_div is taken with exponent 1
\* (p = 1000 / (128 / 2)), which makes SetAMax write (0, 247, 1) to PMUL_PDIV.
C17_Decode ==
    \A p \in Callers :
       Done(p, "SetAMax")
       => /\ pulse_div(DivByteOf(p)) = DivByteOf(p) \div 16
          /\ ramp_div(DivByteOf(p)) = DivByteOf(p) % 16
          /\ PAsStated(p, DivByteOf(p) \div 16, DivByteOf(p) % 16)
          /\ DivByteOf(p) = 118
              => /\ pulse_div(DivByteOf(p)) = 7
                 /\ ramp_div(DivByteOf(p)) = 6
                 /\ PAsStated(p, 7, 6)
                 /\ call[p].v = 1000 => Payload(tx[p][2]) = <<0, 247, 1>>

\* SetAMax(0, 1000) has run with the divider byte 0x76
C17_Witness ==
    /\ Done(1, "SetAMax")
    /\ call[1].v = 1000
    /\ DivByteOf(1) = 118
    /\ POf(1) = [m |-> 1000, e |-> 0 - 6]
    /\ Payload(tx[1][2]) = <<0, 247, 1>>

\* the pdiv for which the loop body assigns pm and pd
AssigningPDivs(pr, ov) ==
    {pdiv \in 0..13 : SetAMaxInRange(SetAMaxPMul(pr, pdiv, ov))}

\* the outcomes the casts of a call can have
CastOutcomes(pr) == IF SetAMaxCastDefined(pr, 13) THEN {INT32_MIN} ELSE CastOverflow

\* C18: for every AMax in 0..2047 and every divider byte, at most one pdiv in
\* 0..13 gives a pmul in 0..127, so the loop assigns (pm, pd) at most once.
C18_AtMostOneValidPDiv ==
    \A p \in Callers :
       (Done(p, "SetAMax") /\ call[p].v \in 0..2047)
       => LET pr == SetAMaxPReduced(POf(p))
          IN  \A ov \in CastOutcomes(pr) : Cardinality(AssigningPDivs(pr, ov)) <= 1

\* a call whose loop assigned once, at pdiv = 6, and wrote that pair
C18_Witness ==
    /\ Done(1, "SetAMax")
    /\ call[1].v = 1000
    /\ DivByteOf(1) = 55
    /\ \A ov \in CastOverflow : AssigningPDivs(SetAMaxPReduced(POf(1)), ov) = {6}
    /\ Payload(tx[1][2])[3] = 6

\* C19: for every AMax in 0..2047, every divider byte and every pdiv in
\* 0..13 the value p_reduced * 8 * 2^pdiv that SetAMax converts to int32_t is
\* below 2^31, so the conversion is defined.
C19_CastInRange ==
    \A p \in Callers :
       (Done(p, "SetAMax") /\ call[p].v \in 0..2047)
       => \A pdiv \in 0..13 : SetAMaxCastDefined(SetAMaxPReduced(POf(p)), pdiv)

\* C20: every read accessor sends one telegram, with address byte
\* (Address | TMC429_READ), and leaves every register unchanged; Read429Bytes
\* returns response byte 0 as the status byte and hands back response bytes
\* 1..3 in order, which are the register's value.
ReadAccessors == {"Read429Bytes", "Read429SingleByte", "Read429Int12", "Read429Int24"}

C20_ReadsChangeNothing ==
    \A p \in Callers :
       (pc[p] = "done" /\ call[p].fn \in ReadAccessors)
       => /\ Len(tx[p]) = 1
          /\ tx[p][1][1] = BitOr(call[p].a, TMC429_READ)
          /\ IsReadTelegram(tx[p][1])
          /\ SameRegs(dev, before, RegAddrs)
          /\ call[p].fn = "Read429Bytes"
              => /\ ret[p] = <<Read[p][1]>>
                 /\ Bytes[p] = <<Read[p][2], Read[p][3], Read[p][4]>>
                 /\ Bytes[p] = Reg(before, call[p].a)

\* a Read429Bytes of the register just written, answered with a status byte
\* that is not zero
C20_Witness ==
    /\ Done(1, "Read429Bytes")
    /\ prev[1].fn = "Write429Bytes"
    /\ prev[1].a = call[1].a
    /\ Bytes[1] = <<255, 0, 90>>
    /\ prev[1].b = Bytes[1]
    /\ ret[1] = <<165>>

====
